---- MODULE Spec2Model ----
(***************************************************************************)
(* Kanban task board: the task CRUD + move handlers of the Express app    *)
(* (src/tests/app.ts) over the SQLite table `tasks` (src/unnamed/part_002)*)
(* and the broadcast issued by every successful mutation.                  *)
(*                                                                         *)
(* JSON request values are tagged records, so that the JavaScript notions  *)
(* the handlers rely on (undefined, null, falsy, ??, ||) are computed as   *)
(* the code computes them and are not identified with each other.          *)
(***************************************************************************)
EXTENDS Integers, Sequences, FiniteSets, TLC

VARIABLES
    tasks,      \* the rows of table `tasks`: a function from id to row
    seq,        \* AUTOINCREMENT counter of the table: the last id issued
    now,        \* CURRENT_TIMESTAMP, in seconds
    req,        \* the request being answered: [op, id, body]
    res,        \* the response sent for it: [status, body]
    sent,       \* the broadcast(event, data) calls made while handling it
    stmts,      \* the SQL statements run while handling it, in order
    prior,      \* the rows of the table when the request arrived
    issued,     \* the ids lastInsertRowid has returned so far, in order
    deleted,    \* the ids a DELETE has removed so far
    sseClients, \* the subscriber channels, in the order of their push
    chans,      \* the number of event streams opened so far
    closed,     \* the channels whose transport has closed
    written,    \* the client.write calls made while handling the request
    inbox,      \* for each channel, the frames it has been sent, in order
    due,        \* for each channel, the commits made while it was registered
    fault,      \* for each channel, what a write to it does: "ok", or on a
                \* transport that has failed, "drops" or "throws"
    flight,     \* the requests received and not yet answered, statement by
                \* statement: for each, its place in the handler and what it
                \* has done so far
    running     \* the request whose handler holds the thread, or 0

vars == <<tasks, seq, now, req, res, sent, stmts, prior, issued, deleted,
          sseClients, chans, closed, written, inbox, due, fault, flight,
          running>>

----------------------------------------------------------------------------
(* Bounds of the model *)

MaxTasks == 1       \* rows the table ever receives (INSERTs)
MaxFields == 2      \* keys a PUT body supplies at most
MaxClock == 1       \* seconds the clock advances
MaxRows == 3        \* rows the table of the board specification receives
MaxClients == 3     \* event streams opened
MaxFrames == 3      \* frames a channel is sent, the comment included
MaxInflight == 2    \* requests received and not yet answered

----------------------------------------------------------------------------
(* JSON / JavaScript values *)

Undefined == [kind |-> "undefined"]
Null == [kind |-> "null"]
Str(s) == [kind |-> "string", val |-> s]
Num(n) == [kind |-> "number", val |-> n]
\* ?owner=a&owner=b: the query parser hands over an array
Many == [kind |-> "array"]

\* JavaScript truthiness: undefined, null, "" and 0 are falsy
Truthy(v) ==
    CASE v.kind = "undefined" -> FALSE
      [] v.kind = "null" -> FALSE
      [] v.kind = "string" -> v.val # ""
      [] v.kind = "number" -> v.val # 0
      [] v.kind = "array" -> TRUE

\* a || b
OrElse(a, b) == IF Truthy(a) THEN a ELSE b

\* a || null: every falsy value taken for an absent one
NullishToNull_Falsy(a) == IF Truthy(a) THEN a ELSE Null

\* a ?? null
NullishToNull(a) == IF a.kind \in {"undefined", "null"} THEN Null ELSE a

\* Array.prototype.includes on an array of string literals
Includes(arr, v) == v.kind = "string" /\ v.val \in arr

Owners == {"oracle", "soheil"}
Statuses == {"backlog", "in_progress", "done"}

----------------------------------------------------------------------------
(* The table `tasks` *)

\* a table created without its CHECK clauses
ConstraintsHold_NoCheck(title, owner, status) ==
    title.kind # "null" /\ owner.kind # "null"

\* The column constraints: title NOT NULL, owner CHECK ... NOT NULL,
\* status CHECK (a CHECK passes on NULL). Parameters are bound JS values.
ConstraintsHold(title, owner, status) ==
    /\ title.kind # "null"
    /\ owner.kind # "null"
    /\ Includes(Owners, owner)
    /\ (status.kind = "null" \/ Includes(Statuses, status))

\* a value stmt.run can bind: a number, a string or null, never undefined
Bindable(v) == v.kind \in {"string", "number", "null"}

\* COALESCE(?, column)
Coalesce(param, column) == IF param.kind = "null" THEN column ELSE param.val

\* SELECT * FROM tasks WHERE id = ?
SelectById(t, id) == IF id \in DOMAIN t THEN t[id] ELSE Null

\* INSERT INTO tasks (title, description, owner, priority, status): the
\* row the statement adds; position and the timestamps take their DEFAULT.
InsertedRow(id, title, description, owner, priority, status, ts) ==
    [id |-> id,
     title |-> title.val,
     description |-> description.val,
     owner |-> owner.val,
     priority |-> priority.val,
     status |-> status.val,
     position |-> 0,
     created_at |-> ts,
     updated_at |-> ts]

\* UPDATE tasks SET col = COALESCE(?, col), ..., updated_at = CURRENT_TIMESTAMP
\* an UPDATE that also sets created_at = CURRENT_TIMESTAMP
CoalescedRow_Restamped(old, title, description, owner, priority, status, position, ts) ==
    [id |-> old.id,
     title |-> Coalesce(title, old.title),
     description |-> Coalesce(description, old.description),
     owner |-> Coalesce(owner, old.owner),
     priority |-> Coalesce(priority, old.priority),
     status |-> Coalesce(status, old.status),
     position |-> Coalesce(position, old.position),
     created_at |-> ts,
     updated_at |-> ts]

\* an UPDATE that puts the position back to 0 when none is supplied
CoalescedRow_ResetsPosition(old, title, description, owner, priority, status, position, ts) ==
    [id |-> old.id,
     title |-> Coalesce(title, old.title),
     description |-> Coalesce(description, old.description),
     owner |-> Coalesce(owner, old.owner),
     priority |-> Coalesce(priority, old.priority),
     status |-> Coalesce(status, old.status),
     position |-> IF position = Null THEN 0 ELSE position.val,
     created_at |-> old.created_at,
     updated_at |-> ts]

CoalescedRow(old, title, description, owner, priority, status, position, ts) ==
    [id |-> old.id,
     title |-> Coalesce(title, old.title),
     description |-> Coalesce(description, old.description),
     owner |-> Coalesce(owner, old.owner),
     priority |-> Coalesce(priority, old.priority),
     status |-> Coalesce(status, old.status),
     position |-> Coalesce(position, old.position),
     created_at |-> old.created_at,
     updated_at |-> ts]

\* a move that also puts the priority back to the column default
MovedRow_ResetsPriority(old, status, position, ts) ==
    [old EXCEPT !.status = status.val, !.position = position.val,
                !.priority = 1, !.updated_at = ts]

\* a move that leaves updated_at alone
MovedRow_Stale(old, status, position, ts) ==
    [old EXCEPT !.status = status.val, !.position = position.val]

\* UPDATE tasks SET status = ?, position = ?, updated_at = CURRENT_TIMESTAMP
MovedRow(old, status, position, ts) ==
    [old EXCEPT !.status = status.val, !.position = position.val,
                !.updated_at = ts]

\* the bytes of the status strings the table can hold
BytesOf(s) ==
    CASE s = "backlog" -> <<98, 97, 99, 107, 108, 111, 103>>
      [] s = "in_progress" -> <<105, 110, 95, 112, 114, 111, 103, 114, 101, 115, 115>>
      [] s = "done" -> <<100, 111, 110, 101>>

\* the memcmp order of the BINARY collation of a TEXT column
RECURSIVE BytesLess(_, _)
BytesLess(a, b) ==
    IF b = <<>> THEN FALSE
    ELSE IF a = <<>> THEN TRUE
    ELSE IF Head(a) # Head(b) THEN Head(a) < Head(b)
    ELSE BytesLess(Tail(a), Tail(b))

\* the columns of the board from left to right
StatusBefore_Workflow(a, b) ==
    \/ a = "backlog" /\ b \in {"in_progress", "done"}
    \/ a = "in_progress" /\ b = "done"

StatusBefore(a, b) == BytesLess(BytesOf(a), BytesOf(b))

\* ORDER BY status, position, id
RowBefore(r, o) ==
    \/ StatusBefore(r.status, o.status)
    \/ r.status = o.status /\ r.position < o.position
    \/ r.status = o.status /\ r.position = o.position /\ r.id < o.id

RECURSIVE Ordered(_)
Ordered(rows) ==
    IF rows = {} THEN <<>>
    ELSE LET first == CHOOSE r \in rows : \A o \in rows \ {r} : RowBefore(r, o)
         IN  <<first>> \o Ordered(rows \ {first})

\* a SELECT that forgets its WHERE clause
SelectAll_Unfiltered(t, params) == Ordered({t[i] : i \in DOMAIN t})

\* SELECT * FROM tasks [WHERE owner = ?] ORDER BY status, position, id
SelectAll(t, params) ==
    Ordered({t[i] : i \in {j \in DOMAIN t :
                              params = <<>> \/ t[j].owner = params[1]}})

\* a write that makes room in the column: siblings at or after the position
\* of the row move one place down
WithRow_Renumbering(t, id, row) ==
    [i \in DOMAIN t \cup {id} |->
        IF i = id THEN row
        ELSE IF t[i].status = row.status /\ t[i].position >= row.position
        THEN [t[i] EXCEPT !.position = @ + 1]
        ELSE t[i]]

\* t with the row of id replaced / added
WithRow(t, id, row) == [i \in DOMAIN t \cup {id} |-> IF i = id THEN row ELSE t[i]]

\* a delete that leaves the row in the table
WithoutRow_Kept(t, id) == t

\* DELETE FROM tasks WHERE id = ?
WithoutRow(t, id) == [i \in DOMAIN t \ {id} |-> t[i]]

----------------------------------------------------------------------------
(* Responses and broadcast *)

Json(status, body) == [status |-> status, body |-> body]
Error(msg) == [error |-> msg]
Empty == [empty |-> TRUE]

\* the frame of an event: `event: <name>\ndata: <JSON of data>\n\n`
EventFrame(event, data) == [frame |-> "event", event |-> event, json |-> data]

\* the comment frame `: connected\n\n`
ConnectedFrame == [frame |-> "comment", text |-> "connected"]

\* a loop that walks the subscribers from the last to the first
WritesOf_Reversed(clients, call) ==
    [i \in 1 .. Len(clients) |->
        [client |-> clients[Len(clients) + 1 - i],
         msg |-> EventFrame(call.event, call.data)]]

\* the subscribers the loop reaches: all of them, or those before the
\* first whose write throws, as forEach passes the exception on
Reached(clients) ==
    LET throwing == {i \in 1 .. Len(clients) : fault[clients[i]] = "throws"}
    IN  IF throwing = {} THEN Len(clients)
        ELSE (CHOOSE i \in throwing : \A j \in throwing : i <= j) - 1

\* sseClients.forEach(client => client.write(msg)): the writes of one call
\* that returned
WritesOf(clients, call) ==
    [i \in 1 .. Reached(clients) |->
        [client |-> clients[i], msg |-> EventFrame(call.event, call.data)]]

\* a loop that writes the frame of each call twice
RECURSIVE Delivered_Twice(_, _)
Delivered_Twice(clients, calls) ==
    IF calls = <<>> THEN <<>>
    ELSE WritesOf(clients, Head(calls)) \o WritesOf(clients, Head(calls))
             \o Delivered_Twice(clients, Tail(calls))

\* the writes of the broadcast calls of a handler, in order
RECURSIVE Delivered(_, _)
Delivered(clients, calls) ==
    IF calls = <<>> THEN <<>>
    ELSE WritesOf(clients, Head(calls)) \o Delivered(clients, Tail(calls))

\* a write of the handler has thrown: broadcast was called and the
\* transport of a subscriber throws
Thrown(calls) ==
    calls # <<>> /\ \E i \in DOMAIN sseClients : fault[sseClients[i]] = "throws"

\* the frames of writes that reach channel c: a failed transport takes none
RECURSIVE FramesFor(_, _)
FramesFor(c, writes) ==
    IF writes = <<>> THEN <<>>
    ELSE IF Head(writes).client = c /\ fault[c] = "ok"
    THEN <<Head(writes).msg>> \o FramesFor(c, Tail(writes))
    ELSE FramesFor(c, Tail(writes))

\* a handler that answers without notifying the subscribers
broadcast_Dropped(calls, event, data) == calls

\* broadcast(event, data): one call, recorded in call order
broadcast(calls, event, data) == Append(calls, [event |-> event, data |-> data])

----------------------------------------------------------------------------
(* Request bodies: every key of {title, description, owner, priority,     *)
(* status, position} is present with a value or absent (Undefined).       *)

Keys == {"title", "description", "owner", "priority", "status", "position"}

TitleValues == {Undefined, Null, Str(""), Str("A")}
DescriptionValues == {Undefined, Str(""), Str("d")}
OwnerValues == {Undefined, Str(""), Str("oracle"), Str("soheil"), Str("nobody")}
PriorityValues == {Undefined, Num(0), Num(2)}
StatusValues == {Undefined, Str(""), Str("backlog"), Str("in_progress"),
                 Str("done"), Str("bogus")}
PositionValues == {Undefined, Num(0), Num(1)}

Supplied(body) == {k \in Keys : body[k] # Undefined}

AllBodies ==
    [title : TitleValues, description : DescriptionValues, owner : OwnerValues,
     priority : PriorityValues, status : StatusValues, position : PositionValues]

\* POST bodies: title, owner and fewer than MaxFields of the optional keys
CreateBodies ==
    {b \in AllBodies :
        /\ b.position = Undefined
        /\ Cardinality(Supplied(b) \ {"title", "owner"}) <= MaxFields - 1}

\* PUT bodies: at most MaxFields keys
UpdateBodies == {b \in AllBodies : Cardinality(Supplied(b)) <= MaxFields}

\* PATCH .../move bodies: status and position only
MoveBodies == {b \in AllBodies : Supplied(b) \subseteq {"status", "position"}}

\* ids a request may name: the ids issued so far and one never issued
RequestIds == 1 .. (MaxTasks + 1)

----------------------------------------------------------------------------
(* What a handler leaves behind: the response, the broadcast calls, the   *)
(* statements it ran, and the table it found.                             *)

\* the handler went on past its INSERT, UPDATE or DELETE: the write is
\* committed
Committed(statements) ==
    \E k \in DOMAIN statements :
        \/ statements[k] \in {"INSERT", "UPDATE"} /\ k < Len(statements)
        \/ statements[k] = "DELETE"

\* what the committed request left in the table: the row, {id} for DELETE
CommitOf(request) ==
    CASE request.op = "create" -> [op |-> "create", data |-> tasks'[seq']]
      [] request.op = "delete" -> [op |-> "delete", data |-> [id |-> request.id]]
      [] OTHER -> [op |-> request.op, data |-> tasks'[request.id]]

Answer(request, response, calls, statements) ==
    /\ req' = request
    /\ res' = response
    /\ sent' = calls
    /\ stmts' = statements
    /\ prior' = tasks
    /\ written' = Delivered(sseClients, calls)
    /\ inbox' = [c \in DOMAIN inbox |-> inbox[c] \o FramesFor(c, written')]
    /\ due' = [c \in DOMAIN due |->
                  IF Committed(statements) /\ c \notin closed
                  THEN Append(due[c], CommitOf(request)) ELSE due[c]]
    /\ UNCHANGED <<sseClients, chans, closed, fault, flight, running>>

\* the constraints of the table, on a row about to be written
RowAllowed(row) == ConstraintsHold(Str(row.title), Str(row.owner), Str(row.status))

\* no request is being handled; no response has been written
NoRequest == [op |-> "none"]
NoResponse == Json(0, Empty)

\* the answer of Express when a handler throws
Uncaught == Json(500, Error("Internal Server Error"))

NotFound == Json(404, Error("Task not found"))

----------------------------------------------------------------------------
(* POST /api/tasks *)

\* the validation of the handler: the error message, "" when the body passes
CreateError(body) ==
    IF ~Truthy(body.title) \/ ~Truthy(body.owner)
    THEN "Title and owner are required"
    ELSE IF ~Includes(Owners, body.owner)
    THEN "Owner must be \"oracle\" or \"soheil\""
    ELSE IF Truthy(body.status) /\ ~Includes(Statuses, body.status)
    THEN "Invalid status"
    ELSE ""

\* the defaults of a handler that fills in other values
CreateParams_OtherDefaults(body) ==
    [title |-> body.title,
     description |-> OrElse(body.description, body.title),
     owner |-> body.owner,
     priority |-> OrElse(body.priority, Num(0)),
     status |-> OrElse(body.status, Str("done"))]

\* the parameters bound by stmt.run
CreateParams(body) ==
    [title |-> body.title,
     description |-> OrElse(body.description, Str("")),
     owner |-> body.owner,
     priority |-> OrElse(body.priority, Num(1)),
     status |-> OrElse(body.status, Str("backlog"))]

\* a rowid column without AUTOINCREMENT: one more than the largest rowid
NextRowid_Reused(t, s) ==
    IF DOMAIN t = {} THEN 1
    ELSE (CHOOSE m \in DOMAIN t : \A i \in DOMAIN t : i <= m) + 1

\* id INTEGER PRIMARY KEY AUTOINCREMENT: one more than the largest rowid the
\* table ever held, which sqlite_sequence remembers
NextRowid(t, s) == s + 1

\* a handler that inserts the row and validates the body afterwards
CreateTask_InsertsFirst(body) ==
    LET request == [op |-> "create", body |-> body]
        err == CreateError(body)
        p == CreateParams(body)
        id == NextRowid(tasks, seq)
        row == InsertedRow(id, p.title, p.description, p.owner, p.priority,
                           p.status, now)
        task == SelectById(tasks', id)
    IN  /\ UNCHANGED <<now, deleted>>
        /\ IF ~Bindable(p.title) \/ ~Bindable(p.owner)
              \/ ~ConstraintsHold(p.title, p.owner, p.status)
           THEN /\ Answer(request, Json(400, Error("Failed to create task")),
                          <<>>, <<"INSERT">>)
                /\ UNCHANGED <<tasks, seq, issued>>
           ELSE /\ tasks' = WithRow(tasks, id, row)
                /\ seq' = id
                /\ issued' = Append(issued, id)
                /\ IF err # ""
                   THEN Answer(request, Json(400, Error(err)), <<>>,
                               <<"INSERT", "SELECT">>)
                   ELSE Answer(request, Json(201, task),
                               broadcast(<<>>, "task-created", task),
                               <<"INSERT", "SELECT">>)

CreateTask(body) ==
    LET request == [op |-> "create", body |-> body]
        err == CreateError(body)
        p == CreateParams(body)
        id == NextRowid(tasks, seq)      \* result.lastInsertRowid
        row == InsertedRow(id, p.title, p.description, p.owner, p.priority,
                           p.status, now)
        task == SelectById(tasks', id)
    IN  /\ UNCHANGED <<now, deleted>>
        /\ IF err # ""
           THEN /\ Answer(request, Json(400, Error(err)), <<>>, <<>>)
                /\ UNCHANGED <<tasks, seq, issued>>
           ELSE IF ~Bindable(p.title) \/ ~ConstraintsHold(p.title, p.owner, p.status)
           THEN \* stmt.run throws, the handler catches
                /\ Answer(request, Json(400, Error("Failed to create task")),
                          <<>>, <<"INSERT">>)
                /\ UNCHANGED <<tasks, seq, issued>>
           ELSE /\ tasks' = WithRow(tasks, id, row)
                /\ seq' = id
                /\ issued' = Append(issued, id)
                /\ Answer(request,
                          IF Thrown(broadcast(<<>>, "task-created", task))
                          THEN \* client.write throws, the handler catches
                               Json(400, Error("Failed to create task"))
                          ELSE Json(201, task),
                          broadcast(<<>>, "task-created", task),
                          <<"INSERT", "SELECT">>)

----------------------------------------------------------------------------
(* GET /api/events *)

\* Array.prototype.indexOf: the first index, from 0, or -1
IndexOf(arr, x) ==
    IF \E i \in 1 .. Len(arr) : arr[i] = x
    THEN (CHOOSE i \in 1 .. Len(arr) :
              arr[i] = x /\ \A j \in 1 .. (i - 1) : arr[j] # x) - 1
    ELSE -1

\* splice(idx) without a count: everything from idx on goes
Splice1_Rest(arr, idx) == SubSeq(arr, 1, idx)

\* arr.splice(idx, 1)
Splice1(arr, idx) == SubSeq(arr, 1, idx) \o SubSeq(arr, idx + 2, Len(arr))

\* the response of an event stream: headers flushed, body left open
Stream == Json(200, [stream |-> "text/event-stream"])

\* a handler that replays the table to the new subscriber
Greeting_Replays(t) ==
    <<ConnectedFrame>> \o
        [k \in 1 .. Cardinality(DOMAIN t) |->
            EventFrame("task-created",
                       t[CHOOSE i \in DOMAIN t :
                             Cardinality({j \in DOMAIN t : j < i}) = k - 1])]

\* res.write(': connected\n\n'): what a new stream is sent, whatever the
\* table t holds
Greeting(t) == <<ConnectedFrame>>

\* the handler: the channel gets the comment frame and joins the subscribers
Subscribe ==
    LET channel == chans + 1
    IN  /\ chans < MaxClients
        /\ chans' = channel
        /\ written' = [k \in DOMAIN Greeting(tasks) |->
                          [client |-> channel, msg |-> Greeting(tasks)[k]]]
        /\ sseClients' = Append(sseClients, channel)
        /\ req' = [op |-> "subscribe", channel |-> channel]
        /\ res' = Stream
        /\ sent' = <<>>
        /\ stmts' = <<>>
        /\ prior' = tasks
        /\ inbox' = [c \in DOMAIN inbox \cup {channel} |->
                        IF c = channel THEN Greeting(tasks) ELSE inbox[c]]
        /\ due' = [c \in DOMAIN due \cup {channel} |->
                      IF c = channel THEN <<>> ELSE due[c]]
        /\ fault' = [c \in DOMAIN fault \cup {channel} |->
                        IF c = channel THEN "ok" ELSE fault[c]]
        /\ UNCHANGED <<tasks, seq, now, issued, deleted, closed, flight, running>>

\* req.on('close', ...): the transport of an open stream has closed
Close(channel) ==
    LET idx == IndexOf(sseClients, channel)
    IN  /\ channel \in (1 .. chans) \ closed
        /\ closed' = closed \cup {channel}
        /\ sseClients' = IF idx # -1 THEN Splice1(sseClients, idx)
                                     ELSE sseClients
        /\ req' = [op |-> "close", channel |-> channel]
        /\ res' = NoResponse
        /\ sent' = <<>>
        /\ stmts' = <<>>
        /\ prior' = tasks
        /\ written' = <<>>
        /\ UNCHANGED <<tasks, seq, now, issued, deleted, chans, inbox, due, fault,
                       flight, running>>

\* the transport of a registered channel fails; its 'close' event has not
\* been delivered yet. From now on a write to it is lost or throws.
Break(channel, mode) ==
    /\ channel \in (1 .. chans) \ closed
    /\ fault[channel] = "ok"
    /\ fault' = [fault EXCEPT ![channel] = mode]
    /\ UNCHANGED <<tasks, seq, now, req, res, sent, stmts, prior, issued,
                   deleted, sseClients, chans, closed, written, inbox, due,
                   flight, running>>

----------------------------------------------------------------------------
(* GET /api/tasks *)

\* the values of req.query.owner
FilterValues ==
    {Undefined, Str(""), Str("oracle"), Str("soheil"), Str("nobody"), Many}

ListTasks(query) ==
    LET request == [op |-> "list", query |-> query]
        owner == query.owner
        params == IF Truthy(owner) /\ owner.kind = "string"
                  THEN <<owner.val>> ELSE <<>>
    IN  /\ UNCHANGED <<tasks, seq, now, issued, deleted>>
        /\ Answer(request, Json(200, SelectAll(tasks, params)), <<>>,
                  <<"SELECT">>)

----------------------------------------------------------------------------
(* PUT /api/tasks/:id *)

UpdateError(body) ==
    IF Truthy(body.owner) /\ ~Includes(Owners, body.owner)
    THEN "Owner must be \"oracle\" or \"soheil\""
    ELSE IF Truthy(body.status) /\ ~Includes(Statuses, body.status)
    THEN "Invalid status"
    ELSE ""

UpdateParams(body) == [k \in Keys |-> NullishToNull(body[k])]

\* the table a PUT of id with body leaves, handled at time ts on table t
AfterUpdate(t, id, body, ts) ==
    LET p == UpdateParams(body)
        row == CoalescedRow(t[id], p.title, p.description, p.owner,
                            p.priority, p.status, p.position, ts)
    IN  IF SelectById(t, id) = Null THEN t
        ELSE IF UpdateError(body) # "" THEN t
        ELSE IF ~RowAllowed(row) THEN t
        ELSE WithRow(t, id, row)

UpdateTask(id, body) ==
    LET request == [op |-> "update", id |-> id, body |-> body]
        existing == SelectById(tasks, id)
        err == UpdateError(body)
        p == UpdateParams(body)
        row == CoalescedRow(tasks[id], p.title, p.description, p.owner,
                            p.priority, p.status, p.position, now)
        task == SelectById(tasks', id)
    IN  /\ UNCHANGED <<seq, now, issued, deleted>>
        /\ IF existing = Null
           THEN /\ Answer(request, NotFound, <<>>, <<"SELECT">>)
                /\ UNCHANGED tasks
           ELSE IF err # ""
           THEN /\ Answer(request, Json(400, Error(err)), <<>>, <<"SELECT">>)
                /\ UNCHANGED tasks
           ELSE IF ~RowAllowed(row)
           THEN \* stmt.run throws a constraint error nobody catches
                /\ Answer(request, Uncaught, <<>>, <<"SELECT", "UPDATE">>)
                /\ UNCHANGED tasks
           ELSE /\ tasks' = WithRow(tasks, id, row)
                /\ Answer(request,
                          IF Thrown(broadcast(<<>>, "task-updated", task))
                          THEN Uncaught ELSE Json(200, task),
                          broadcast(<<>>, "task-updated", task),
                          <<"SELECT", "UPDATE", "SELECT">>)

----------------------------------------------------------------------------
(* DELETE /api/tasks/:id *)

\* a handler that deletes without looking the task up first
DeleteTask_Unchecked(id) ==
    /\ UNCHANGED <<seq, now, issued>>
    /\ tasks' = WithoutRow(tasks, id)
    /\ deleted' = deleted \cup {id}
    /\ Answer([op |-> "delete", id |-> id], Json(204, Empty),
              broadcast(<<>>, "task-deleted", [id |-> id]), <<"DELETE">>)

DeleteTask(id) ==
    LET request == [op |-> "delete", id |-> id]
        existing == SelectById(tasks, id)
    IN  /\ UNCHANGED <<seq, now, issued>>
        /\ IF existing = Null
           THEN /\ Answer(request, NotFound, <<>>, <<"SELECT">>)
                /\ UNCHANGED <<tasks, deleted>>
           ELSE /\ tasks' = WithoutRow(tasks, id)
                /\ deleted' = deleted \cup {id}
                /\ Answer(request,
                          IF Thrown(broadcast(<<>>, "task-deleted", [id |-> id]))
                          THEN Uncaught ELSE Json(204, Empty),
                          broadcast(<<>>, "task-deleted", [id |-> id]),
                          <<"SELECT", "DELETE">>)

----------------------------------------------------------------------------
(* PATCH /api/tasks/:id/move *)

\* a check of presence only, as if every present status were valid
MoveError_PresenceOnly(body) ==
    IF ~Truthy(body.status) THEN "Valid status is required" ELSE ""

MoveError(body) ==
    IF ~Truthy(body.status) \/ ~Includes(Statuses, body.status)
    THEN "Valid status is required"
    ELSE ""

MoveParams(body) ==
    [status |-> body.status, position |-> OrElse(body.position, Num(0))]

\* a handler that validates the body before it looks the task up
MoveTask_ValidatesFirst(id, body) ==
    LET request == [op |-> "move", id |-> id, body |-> body]
        existing == SelectById(tasks, id)
        err == MoveError(body)
        p == MoveParams(body)
        row == MovedRow(tasks[id], p.status, p.position, now)
        task == SelectById(tasks', id)
    IN  /\ UNCHANGED <<seq, now, issued, deleted>>
        /\ IF err # ""
           THEN /\ Answer(request, Json(400, Error(err)), <<>>, <<>>)
                /\ UNCHANGED tasks
           ELSE IF existing = Null
           THEN /\ Answer(request, NotFound, <<>>, <<"SELECT">>)
                /\ UNCHANGED tasks
           ELSE IF ~RowAllowed(row)
           THEN /\ Answer(request, Uncaught, <<>>, <<"SELECT", "UPDATE">>)
                /\ UNCHANGED tasks
           ELSE /\ tasks' = WithRow(tasks, id, row)
                /\ Answer(request, Json(200, task),
                          broadcast(<<>>, "task-updated", task),
                          <<"SELECT", "UPDATE", "SELECT">>)

MoveTask(id, body) ==
    LET request == [op |-> "move", id |-> id, body |-> body]
        existing == SelectById(tasks, id)
        err == MoveError(body)
        p == MoveParams(body)
        row == MovedRow(tasks[id], p.status, p.position, now)
        task == SelectById(tasks', id)
    IN  /\ UNCHANGED <<seq, now, issued, deleted>>
        /\ IF existing = Null
           THEN /\ Answer(request, NotFound, <<>>, <<"SELECT">>)
                /\ UNCHANGED tasks
           ELSE IF err # ""
           THEN /\ Answer(request, Json(400, Error(err)), <<>>, <<"SELECT">>)
                /\ UNCHANGED tasks
           ELSE IF ~RowAllowed(row)
           THEN \* stmt.run throws a constraint error nobody catches
                /\ Answer(request, Uncaught, <<>>, <<"SELECT", "UPDATE">>)
                /\ UNCHANGED tasks
           ELSE /\ tasks' = WithRow(tasks, id, row)
                /\ Answer(request,
                          IF Thrown(broadcast(<<>>, "task-updated", task))
                          THEN Uncaught ELSE Json(200, task),
                          broadcast(<<>>, "task-updated", task),
                          <<"SELECT", "UPDATE", "SELECT">>)

----------------------------------------------------------------------------
(* The server entry point: the same routes over a table of the same       *)
(* schema, without the checks of status and of the PUT and PATCH bodies,   *)
(* without try/catch and without broadcast. Each handler is given as the   *)
(* response and the table it leaves, on table t at time ts.                *)

Outcome(response, t) == [res |-> response, tasks |-> t]

ServerCreateError(body) ==
    IF ~Truthy(body.title) \/ ~Truthy(body.owner)
    THEN "Title and owner are required"
    ELSE IF ~Includes(Owners, body.owner)
    THEN "Owner must be \"oracle\" or \"soheil\""
    ELSE ""

ServerCreate(t, s, body, ts) ==
    LET err == ServerCreateError(body)
        p == CreateParams(body)
        id == NextRowid(t, s)
        row == InsertedRow(id, p.title, p.description, p.owner, p.priority,
                           p.status, ts)
    IN  IF err # "" THEN Outcome(Json(400, Error(err)), t)
        ELSE IF ~ConstraintsHold(p.title, p.owner, p.status)
        THEN Outcome(Uncaught, t)
        ELSE Outcome(Json(201, row), WithRow(t, id, row))

ServerUpdate(t, id, body, ts) ==
    LET p == UpdateParams(body)
        row == CoalescedRow(t[id], p.title, p.description, p.owner,
                            p.priority, p.status, p.position, ts)
    IN  IF SelectById(t, id) = Null THEN Outcome(NotFound, t)
        ELSE IF ~RowAllowed(row) THEN Outcome(Uncaught, t)
        ELSE Outcome(Json(200, row), WithRow(t, id, row))

ServerMove(t, id, body, ts) ==
    LET p == MoveParams(body)
        row == MovedRow(t[id], p.status, p.position, ts)
    IN  IF SelectById(t, id) = Null THEN Outcome(NotFound, t)
        ELSE IF ~Bindable(p.status) THEN Outcome(Uncaught, t)
        ELSE IF ~RowAllowed(row) THEN Outcome(Uncaught, t)
        ELSE Outcome(Json(200, row), WithRow(t, id, row))

----------------------------------------------------------------------------
(* The clock of CURRENT_TIMESTAMP *)

Tick ==
    /\ now < MaxClock
    /\ now' = now + 1
    /\ UNCHANGED <<tasks, seq, req, res, sent, stmts, prior, issued, deleted,
                   sseClients, chans, closed, written, inbox, due, fault,
                   flight, running>>

----------------------------------------------------------------------------
(* Specification: the handlers are synchronous, so requests are handled   *)
(* one after the other; req, res, sent, stmts and prior describe the      *)
(* request being answered and are forgotten once its response is written. *)

Idle == req = NoRequest

\* the response has been written, the next request may be handled
Finish ==
    /\ ~Idle
    /\ req' = NoRequest
    /\ res' = NoResponse
    /\ sent' = <<>>
    /\ stmts' = <<>>
    /\ prior' = tasks
    /\ written' = <<>>
    /\ UNCHANGED <<tasks, seq, now, issued, deleted, sseClients, chans, closed,
                   inbox, due, fault, flight, running>>

Init ==
    /\ tasks = <<>>
    /\ seq = 0
    /\ now = 0
    /\ req = NoRequest
    /\ res = NoResponse
    /\ sent = <<>>
    /\ stmts = <<>>
    /\ prior = <<>>
    /\ issued = <<>>
    /\ deleted = {}
    /\ sseClients = <<>>
    /\ chans = 0
    /\ closed = {}
    /\ written = <<>>
    /\ inbox = <<>>
    /\ due = <<>>
    /\ fault = <<>>
    /\ flight = [slot \in 1 .. MaxInflight |-> [pc |-> "free"]]
    /\ running = 0

Next ==
    \/ Idle /\ \E body \in CreateBodies : CreateTask(body) /\ seq' <= MaxTasks
    \/ Idle /\ \E id \in RequestIds, body \in UpdateBodies : UpdateTask(id, body)
    \/ Idle /\ \E id \in RequestIds : DeleteTask(id)
    \/ Idle /\ \E id \in RequestIds, body \in MoveBodies : MoveTask(id, body)
    \/ Finish
    \/ Idle /\ Tick

Spec == Init /\ [][Next]_vars

----------------------------------------------------------------------------
(* The board: several tasks, requests with few fields, no clock *)

Body(title, owner, status, position) ==
    [title |-> title, description |-> Undefined, owner |-> owner,
     priority |-> Undefined, status |-> status, position |-> position]

BoardCreateBodies ==
    {Body(Str("A"), Str(o), s, Undefined) :
        o \in Owners, s \in {Undefined, Str("in_progress"), Str("done")}}

\* PUT bodies that hand a task to an owner or place it in its column
BoardUpdateBodies ==
    {Body(Undefined, Str(o), Undefined, Undefined) : o \in Owners}
        \cup {Body(Undefined, Undefined, Undefined, Num(n)) : n \in {0, 1}}

BoardMoveBodies ==
    {Body(Undefined, Undefined, Str(s), n) : s \in Statuses, n \in {Undefined, Num(1)}}

BoardIds == 1 .. MaxRows

NextBoard ==
    \/ Idle /\ \E body \in BoardCreateBodies : CreateTask(body) /\ seq' <= MaxRows
    \/ Idle /\ \E id \in BoardIds, body \in BoardUpdateBodies : UpdateTask(id, body)
    \/ Idle /\ \E id \in BoardIds : DeleteTask(id)
    \/ Idle /\ \E id \in BoardIds, body \in BoardMoveBodies : MoveTask(id, body)
    \/ Idle /\ \E owner \in FilterValues : ListTasks([owner |-> owner])
    \/ Finish

SpecBoard == Init /\ [][NextBoard]_vars

----------------------------------------------------------------------------
(* The event streams: subscribers come and go while tasks are written *)

\* POST bodies: one that is accepted, one without a title, one with a
\* status outside the enum, and one whose title is an array, which passes
\* the checks of the handler and cannot be bound
SseCreateBodies ==
    {Body(Str("A"), Str("oracle"), Undefined, Undefined),
     Body(Str(""), Str("oracle"), Undefined, Undefined),
     Body(Str("A"), Str("oracle"), Str("bogus"), Undefined),
     Body(Many, Str("oracle"), Undefined, Undefined)}

SseUpdateBodies ==
    {Body(Undefined, Undefined, Undefined, Num(1)),
     Body(Undefined, Str("nobody"), Undefined, Undefined)}

SseMoveBodies ==
    {Body(Undefined, Undefined, Str("done"), Undefined),
     Body(Undefined, Undefined, Undefined, Num(1))}

SseIds == RequestIds

\* no channel is sent more than MaxFrames frames
FramesBounded == \A c \in DOMAIN due' : Len(due'[c]) < MaxFrames

NextSse ==
    \/ Idle /\ Subscribe
    \/ Idle /\ \E channel \in 1 .. MaxClients : Close(channel)
    \/ Idle /\ \E body \in SseCreateBodies :
                   CreateTask(body) /\ seq' <= MaxTasks /\ FramesBounded
    \/ Idle /\ \E id \in SseIds, body \in SseUpdateBodies :
                   UpdateTask(id, body) /\ FramesBounded
    \/ Idle /\ \E id \in SseIds : DeleteTask(id) /\ FramesBounded
    \/ Idle /\ \E id \in SseIds, body \in SseMoveBodies :
                   MoveTask(id, body) /\ FramesBounded
    \/ Finish

SpecSse == Init /\ [][NextSse]_vars

\* what a write to a channel whose transport has failed may do
FaultModes == {"drops", "throws"}

\* the test app with event streams whose transport may fail before its
\* 'close' event is delivered
NextFault ==
    \/ Idle /\ Subscribe
    \/ Idle /\ \E channel \in 1 .. MaxClients : Close(channel)
    \/ Idle /\ \E channel \in 1 .. MaxClients, mode \in FaultModes :
                   Break(channel, mode)
    \/ Idle /\ CreateTask(Body(Str("A"), Str("oracle"), Undefined, Undefined))
            /\ seq' <= MaxTasks /\ FramesBounded
    \/ Idle /\ UpdateTask(1, Body(Undefined, Undefined, Undefined, Num(1)))
            /\ FramesBounded
    \/ Idle /\ DeleteTask(1) /\ FramesBounded
    \/ Finish

SpecFault == Init /\ [][NextFault]_vars

----------------------------------------------------------------------------
(* One task and its Updates: every PUT body, no other request *)

NextMerge ==
    \/ Idle /\ \E body \in SseCreateBodies : CreateTask(body) /\ seq' <= MaxTasks
    \/ Idle /\ \E id \in RequestIds, body \in UpdateBodies : UpdateTask(id, body)
    \/ Finish

SpecMerge == Init /\ [][NextMerge]_vars

----------------------------------------------------------------------------
(* Vocabulary of the properties *)

Mutation == req.op \in {"create", "update", "move", "delete"}
Succeeded == res.status \in {200, 201, 204}

\* a key of the body carries a value (it is neither absent nor null)
Given(v) == v.kind \notin {"undefined", "null"}

\* the request names a task the table held when it arrived
TargetExisted == req.id \in DOMAIN prior

EventOf(op) ==
    CASE op = "create" -> "task-created"
      [] op = "update" -> "task-updated"
      [] op = "move" -> "task-updated"
      [] op = "delete" -> "task-deleted"

----------------------------------------------------------------------------
(* C1: every successful Create, Update, Move and Delete makes exactly one  *)
(* broadcast call, named task-created, task-updated (Update and Move) or   *)
(* task-deleted, whose payload is the row returned to the caller, or {id}  *)
(* for Delete.                                                             *)
C1_OneEventPerMutation ==
    (Mutation /\ Succeeded) =>
        /\ Len(sent) = 1
        /\ sent[1].event = EventOf(req.op)
        /\ sent[1].data = IF req.op = "delete" THEN [id |-> req.id] ELSE res.body

C1_Witness ==
    /\ req.op = "move"
    /\ res.status = 200
    /\ sent = <<[event |-> "task-updated", data |-> tasks[req.id]]>>

(* C2: in every reachable state every stored task has its owner in        *)
(* {oracle, soheil} and its status in {backlog, in_progress, done}.        *)
C2_EnumsHold ==
    \A id \in DOMAIN tasks :
        tasks[id].owner \in Owners /\ tasks[id].status \in Statuses

\* an Update carrying owner "" has reached the table and was refused by it
C2_Witness ==
    /\ req.op = "update"
    /\ req.body.owner = Str("")
    /\ "UPDATE" \in {stmts[i] : i \in DOMAIN stmts}
    /\ tasks # <<>>

(* C3: Create answers 400 when title is falsy (empty string, null or      *)
(* missing), when owner is missing or outside its enum, or when a status   *)
(* is given that is outside its enum; then no row is inserted and no event *)
(* is broadcast.                                                           *)
C3_CreateRejected ==
    \/ ~Truthy(req.body.title)
    \/ ~Given(req.body.owner)
    \/ ~Includes(Owners, req.body.owner)
    \/ (Given(req.body.status) /\ ~Includes(Statuses, req.body.status))

C3_CreateValidation ==
    (req.op = "create" /\ C3_CreateRejected) =>
        /\ res.status = 400
        /\ tasks = prior
        /\ sent = <<>>

(* C4: Update of an existing id answers 400, before any writing statement *)
(* runs and with the row unchanged, whenever the body supplies an owner    *)
(* or a status outside its enum, the empty string included.                *)
C4_UpdateRejected ==
    \/ (Given(req.body.owner) /\ ~Includes(Owners, req.body.owner))
    \/ (Given(req.body.status) /\ ~Includes(Statuses, req.body.status))

C4_UpdateValidation ==
    (req.op = "update" /\ TargetExisted /\ C4_UpdateRejected) =>
        /\ res.status = 400
        /\ stmts = <<"SELECT">>
        /\ tasks = prior

(* C5: Update, Move and Delete of an id no stored task has answer 404     *)
(* 'Task not found', leave the table unchanged and broadcast nothing.      *)
C5_NotFound ==
    (req.op \in {"update", "move", "delete"} /\ ~TargetExisted) =>
        /\ res = Json(404, Error("Task not found"))
        /\ tasks = prior
        /\ sent = <<>>

\* asked for an id that is not there while the table holds another task
C5_Witness ==
    /\ req.op = "delete"
    /\ req.id \notin DOMAIN prior
    /\ prior # <<>>
    /\ res.status = 404

(* C6: a successful Update merges field by field over title, description,  *)
(* owner, priority, status and position: an absent or null key keeps the   *)
(* previous value, a present key is overwritten with the supplied value,   *)
(* numeric 0 and the empty string included; an Update that supplies no     *)
(* field succeeds and changes nothing but updated_at.                      *)
C6_Merged(old, body) ==
    [k \in Keys |-> IF Given(body[k]) THEN body[k].val ELSE old[k]]

C6_UpdateMerges ==
    (req.op = "update" /\ TargetExisted) =>
        /\ res.status = 200 =>
              /\ \A k \in Keys :
                    tasks[req.id][k] = C6_Merged(prior[req.id], req.body)[k]
              /\ res.body = tasks[req.id]
        /\ (\A k \in Keys : ~Given(req.body[k])) =>
              /\ res.status = 200
              /\ [tasks[req.id] EXCEPT !.updated_at = prior[req.id].updated_at]
                    = prior[req.id]

\* priority 0 and the empty title have overwritten other values
C6_Witness ==
    /\ req.op = "update"
    /\ res.status = 200
    /\ \/ /\ req.body.priority = Num(0)
          /\ prior[req.id].priority # 0
          /\ tasks[req.id].priority = 0
       \/ /\ req.body.title = Str("")
          /\ prior[req.id].title # ""
          /\ tasks[req.id].title = ""

(* C7: in every reachable state every stored task has a non-empty title.  *)
C7_TitleNonEmpty == \A id \in DOMAIN tasks : tasks[id].title # ""

(* C8: the row a valid Create returns is the stored row, with status      *)
(* 'backlog', priority 1 and description '' where the body omits them,     *)
(* position 0, and the title and owner of the body.                        *)
C8_CreateDefaults ==
    (req.op = "create" /\ res.status = 201) =>
        LET row == res.body
        IN  /\ row.id \in DOMAIN tasks /\ tasks[row.id] = row
            /\ row.id \notin DOMAIN prior
            /\ ~Given(req.body.status) => row.status = "backlog"
            /\ ~Given(req.body.priority) => row.priority = 1
            /\ ~Given(req.body.description) => row.description = ""
            /\ row.position = 0
            /\ row.title = req.body.title.val
            /\ row.owner = req.body.owner.val

\* a Create of title and owner alone
C8_Witness ==
    /\ req.op = "create"
    /\ res.status = 201
    /\ Supplied(req.body) = {"title", "owner"}
    /\ res.body.status = "backlog" /\ res.body.priority = 1

(* C9: Create stores every integer priority of the body as supplied, 0    *)
(* included; the default 1 is used only when priority is omitted.          *)
C9_PriorityStored ==
    (req.op = "create" /\ res.status = 201 /\ Given(req.body.priority)) =>
        res.body.priority = req.body.priority.val

(* C10: Move of an existing id succeeds exactly when status is present    *)
(* and in its enum, whatever the current status of the task; otherwise it  *)
(* answers 400 and the row is unchanged. On success the stored position is *)
(* the supplied one, or 0 when position is absent or falsy.                *)
C10_Move ==
    (req.op = "move" /\ TargetExisted) =>
        IF Includes(Statuses, req.body.status)
        THEN /\ res.status = 200
             /\ tasks[req.id].status = req.body.status.val
             /\ tasks[req.id].position =
                    IF Truthy(req.body.position) THEN req.body.position.val ELSE 0
        ELSE /\ res.status = 400
             /\ tasks = prior

\* a task moved back from done to backlog, with no position in the body
C10_Witness ==
    /\ req.op = "move"
    /\ res.status = 200
    /\ prior[req.id].status = "done"
    /\ prior[req.id].position = 1
    /\ ~Given(req.body.position)
    /\ tasks[req.id].status = "backlog"
    /\ tasks[req.id].position = 0

----------------------------------------------------------------------------
(* C11: a successful Move overwrites status and position of the target    *)
(* row and refreshes its updated_at; id, title, description, owner,        *)
(* priority and created_at of the row are what they were before.           *)
C11_MoveFrame ==
    (req.op = "move" /\ res.status = 200) =>
        LET old == prior[req.id]
            new == tasks[req.id]
        IN  /\ new.id = old.id
            /\ new.title = old.title
            /\ new.description = old.description
            /\ new.owner = old.owner
            /\ new.priority = old.priority
            /\ new.created_at = old.created_at
            /\ new.status = req.body.status.val
            /\ new.position = OrElse(req.body.position, Num(0)).val
            /\ new.updated_at = now

\* a task with a priority and a description of its own is moved to another
\* column and position, a second after it was created
C11_Witness ==
    /\ req.op = "move"
    /\ res.status = 200
    /\ prior[req.id].priority = 2
    /\ prior[req.id].description = "d"
    /\ prior[req.id].status # tasks[req.id].status
    /\ prior[req.id].position # tasks[req.id].position
    /\ prior[req.id].updated_at < tasks[req.id].updated_at

----------------------------------------------------------------------------
(* C15: created_at of a task is the time of its Create, and no Update or  *)
(* Move of the task, successful or not, changes it.                        *)
C15_CreatedAtFixed ==
    /\ (req.op = "create" /\ res.status = 201) =>
            tasks[res.body.id].created_at = now
    /\ (req.op \in {"update", "move"} /\ TargetExisted) =>
            tasks[req.id].created_at = prior[req.id].created_at

\* a task is given another title a second after it was created
C15_Witness ==
    /\ req.op = "update"
    /\ res.status = 200
    /\ prior[req.id].title # tasks[req.id].title
    /\ tasks[req.id].created_at < now
    /\ tasks[req.id].updated_at = now

----------------------------------------------------------------------------
(* C16: the clock never going back, created_at <= updated_at holds for    *)
(* every row in every state; no request lowers the updated_at of a row;    *)
(* a successful Update or Move sets updated_at to the current time; and a  *)
(* row just created has updated_at = created_at.                           *)
C16_Timestamps ==
    /\ \A i \in DOMAIN tasks : tasks[i].created_at <= tasks[i].updated_at
    /\ \A i \in DOMAIN tasks \cap DOMAIN prior :
            prior[i].updated_at <= tasks[i].updated_at
    /\ (req.op \in {"update", "move"} /\ res.status = 200) =>
            tasks[req.id].updated_at = now
    /\ (req.op = "create" /\ res.status = 201) =>
            tasks[res.body.id].updated_at = tasks[res.body.id].created_at

\* a task is moved a second after it was created and last written
C16_Witness ==
    /\ req.op = "move"
    /\ res.status = 200
    /\ prior[req.id].updated_at < now
    /\ tasks[req.id].created_at < tasks[req.id].updated_at
    /\ tasks[req.id].updated_at = now

----------------------------------------------------------------------------
\* the rows of a list, and the place of a status among the status strings
Listed == {res.body[k] : k \in DOMAIN res.body}

StringRank(status) ==
    CASE status = "backlog" -> 1
      [] status = "done" -> 2
      [] status = "in_progress" -> 3

(* C17: every List, filtered or not, returns its tasks in strictly         *)
(* ascending order of (status as a string, position, id), backlog before   *)
(* done before in_progress: of two neighbours the first has the smaller    *)
(* key, so that no two orders of the same rows are possible.               *)
C17_ListOrder ==
    req.op = "list" =>
        /\ res.status = 200
        /\ \A k \in 1 .. (Len(res.body) - 1) :
               LET r == res.body[k]
                   o == res.body[k + 1]
               IN  \/ StringRank(r.status) < StringRank(o.status)
                   \/ /\ r.status = o.status
                      /\ r.position < o.position
                   \/ /\ r.status = o.status
                      /\ r.position = o.position
                      /\ r.id < o.id

\* a list of a done task and an in_progress task created before it
C17_Witness ==
    /\ req.op = "list"
    /\ Len(res.body) = 2
    /\ res.body[1].status = "done"
    /\ res.body[2].status = "in_progress"
    /\ res.body[2].id < res.body[1].id

----------------------------------------------------------------------------
\* the stored tasks of an owner, and the per-owner lists of the handler
OwnedBy(name) == {tasks[i] : i \in {j \in DOMAIN tasks : tasks[j].owner = name}}

AllTasks == {tasks[i] : i \in DOMAIN tasks}

\* the unfiltered list is the disjoint union of the two per-owner lists
C18_UnionOfOwners ==
    (req.op = "list" /\ req.query.owner = Undefined) =>
        /\ Listed = OwnedBy("oracle") \cup OwnedBy("soheil")
        /\ OwnedBy("oracle") \cap OwnedBy("soheil") = {}
        /\ Len(res.body) = Len(SelectAll(tasks, <<"oracle">>))
                               + Len(SelectAll(tasks, <<"soheil">>))

(* C18: a List with an owner filter string returns exactly the stored     *)
(* tasks whose owner equals the string, each once; every filter string     *)
(* outside the enum of owners is answered 200 with the empty array; and    *)
(* the unfiltered list is the disjoint union of the two per-owner lists.   *)
C18_OwnerFilter ==
    /\ (req.op = "list" /\ req.query.owner.kind = "string") =>
            /\ res.status = 200
            /\ Listed = OwnedBy(req.query.owner.val)
            /\ Len(res.body) = Cardinality(Listed)
            /\ req.query.owner.val \notin Owners => res.body = <<>>
    /\ C18_UnionOfOwners

(* C18, amended: the same for every filter string that is not empty; a    *)
(* List whose filter is the empty string, or is not a string, is answered  *)
(* as the List without a filter, with all the stored tasks.                *)
C18_OwnerFilterNonEmpty ==
    /\ (req.op = "list" /\ req.query.owner.kind = "string"
                        /\ req.query.owner.val # "") =>
            /\ res.status = 200
            /\ Listed = OwnedBy(req.query.owner.val)
            /\ Len(res.body) = Cardinality(Listed)
            /\ req.query.owner.val \notin Owners => res.body = <<>>
    /\ (req.op = "list" /\ req.query.owner \in {Str(""), Many}) =>
            /\ res.status = 200
            /\ Listed = AllTasks
            /\ Len(res.body) = Cardinality(AllTasks)
    /\ C18_UnionOfOwners

\* the board holds a task of each owner and the list asks for soheil's
C18_Witness ==
    /\ req.op = "list"
    /\ req.query.owner = Str("soheil")
    /\ OwnedBy("oracle") # {}
    /\ Len(res.body) = 1
    /\ res.body[1].owner = "soheil"

----------------------------------------------------------------------------
(* C12: an id that a Delete has removed is never in the table again,      *)
(* whatever is created afterwards; every later Update, Move and Delete of  *)
(* it is answered 404 Task not found and changes nothing; and no List      *)
(* returns a task with that id.                                            *)
C12_NoResurrection ==
    /\ \A x \in deleted : x \notin DOMAIN tasks
    /\ (req.op \in {"update", "move", "delete"} /\ req.id \in deleted
                                               /\ ~TargetExisted) =>
            /\ res = NotFound
            /\ tasks = prior
            /\ sent = <<>>
    /\ req.op = "list" => \A r \in Listed : r.id \notin deleted

\* the first task has been deleted and another created after it; a Move
\* of the first is answered 404
C12_Witness ==
    /\ req.op = "move"
    /\ req.id = 1
    /\ deleted = {1}
    /\ issued = <<1, 2>>
    /\ DOMAIN tasks = {2}
    /\ tasks[2].status = "backlog"
    /\ res = NotFound

----------------------------------------------------------------------------
(* C13: an Update, Move or Delete of X leaves every task with another id  *)
(* in the table with all its fields, position included; a successful       *)
(* Delete removes X and nothing else, a successful Update or Move removes  *)
(* and adds nothing; a Create changes no task that was there.              *)
C13_OnlyTarget ==
    /\ req.op \in {"update", "move", "delete"} =>
            /\ \A i \in DOMAIN prior \ {req.id} :
                   i \in DOMAIN tasks /\ tasks[i] = prior[i]
            /\ DOMAIN tasks \ {req.id} = DOMAIN prior \ {req.id}
    /\ (req.op = "delete" /\ res.status = 204) =>
            DOMAIN tasks = DOMAIN prior \ {req.id}
    /\ (req.op \in {"update", "move"} /\ res.status = 200) =>
            DOMAIN tasks = DOMAIN prior
    /\ req.op = "create" =>
            \A i \in DOMAIN prior : i \in DOMAIN tasks /\ tasks[i] = prior[i]

\* a task is moved onto the column and position of another task
C13_Witness ==
    /\ req.op = "move"
    /\ res.status = 200
    /\ prior[req.id].status # tasks[req.id].status
    /\ \E o \in DOMAIN tasks \ {req.id} :
           /\ tasks[o].status = tasks[req.id].status
           /\ tasks[o].position = tasks[req.id].position

----------------------------------------------------------------------------
(* C14: no id is assigned twice in the life of the table, also when the   *)
(* tasks that had the earlier ids are deleted; the id of a row is the id   *)
(* it is stored under; and a successful Update or Move returns and leaves  *)
(* the id the task had.                                                    *)
C14_IdsStable ==
    /\ \A a, b \in DOMAIN issued : a # b => issued[a] # issued[b]
    /\ \A i \in DOMAIN tasks : tasks[i].id = i
    /\ (req.op = "create" /\ res.status = 201) =>
            /\ res.body.id = issued[Len(issued)]
            /\ res.body.id \notin DOMAIN prior \cup deleted
    /\ (req.op \in {"update", "move"} /\ res.status = 200) =>
            /\ res.body.id = req.id
            /\ tasks[req.id].id = prior[req.id].id

\* a task is created when the only task so far has been deleted
C14_Witness ==
    /\ req.op = "create"
    /\ res.status = 201
    /\ prior = <<>>
    /\ deleted = {1}
    /\ res.body.id = 2

----------------------------------------------------------------------------
\* the channels registered, and the payload of the event of the request
Registered == {sseClients[i] : i \in DOMAIN sseClients}

Payload == IF req.op = "delete" THEN [id |-> req.id] ELSE res.body

----------------------------------------------------------------------------
(* C20: every stream that was opened is among the subscribers, once,      *)
(* exactly as long as its transport has not closed: the subscribe request  *)
(* puts it there, the close of a channel takes that channel and no other   *)
(* away, a closed channel is never a subscriber again, and no frame is     *)
(* written to a closed channel.                                            *)
C20_SubscriberLifetime ==
    /\ Registered = (1 .. chans) \ closed
    /\ Len(sseClients) = Cardinality(Registered)
    /\ req.op = "subscribe" => req.channel \in Registered
    /\ req.op = "close" => req.channel \notin Registered
    /\ \A k \in DOMAIN written : written[k].client \notin closed

\* the first of three streams has closed; a task is created, and the two
\* others get the event
C20_Witness ==
    /\ req.op = "create"
    /\ res.status = 201
    /\ closed = {1}
    /\ sseClients = <<2, 3>>
    /\ Len(written) = 2

----------------------------------------------------------------------------
\* the frame that announces a commit
FrameOf(commit) == EventFrame(EventOf(commit.op), commit.data)

\* the event frames among the frames a channel was sent
RECURSIVE EventFrames(_)
EventFrames(frames) ==
    IF frames = <<>> THEN <<>>
    ELSE IF Head(frames).frame = "event"
    THEN <<Head(frames)>> \o EventFrames(Tail(frames))
    ELSE EventFrames(Tail(frames))

(* C21: the first frame a channel is sent is the ': connected' comment    *)
(* and every later frame is an event frame; the subscribe request writes   *)
(* that comment and nothing else, whatever the table holds by then; and    *)
(* every event frame a channel has been sent announces a commit made       *)
(* while the channel was registered.                                       *)
C21_ConnectedFirst ==
    /\ \A c \in DOMAIN inbox :
           /\ inbox[c] # <<>>
           /\ inbox[c][1] = ConnectedFrame
           /\ \A k \in 2 .. Len(inbox[c]) :
                  /\ inbox[c][k].frame = "event"
                  /\ \E j \in DOMAIN due[c] : inbox[c][k] = FrameOf(due[c][j])
    /\ req.op = "subscribe" =>
           /\ written = <<[client |-> req.channel, msg |-> ConnectedFrame]>>
           /\ inbox[req.channel] = <<ConnectedFrame>>
           /\ due[req.channel] = <<>>

\* a stream is opened after a task was created and moved, while an
\* earlier stream has been sent the events of both
C21_Witness ==
    /\ req.op = "subscribe"
    /\ req.channel = 2
    /\ tasks # <<>>
    /\ Len(inbox[1]) = 3
    /\ inbox[2] = <<ConnectedFrame>>

----------------------------------------------------------------------------
\* the positions of the event frames about task id among frames
About(frames, id) ==
    {k \in DOMAIN frames : frames[k].frame = "event" /\ frames[k].json.id = id}

----------------------------------------------------------------------------
----------------------------------------------------------------------------
(* C24: when a create, update, move or delete has committed its write     *)
(* while the transport of a subscriber has failed, every other registered  *)
(* subscriber is written the frame of the event, and the caller is given   *)
(* the answer of a success.                                                *)
C24_FailureIsolated ==
    (Mutation /\ Committed(stmts)) =>
        /\ \A c \in Registered :
               fault[c] = "ok" => \E k \in DOMAIN written : written[k].client = c
        /\ Succeeded

----------------------------------------------------------------------------
(* The handlers statement by statement. A request that has been received  *)
(* waits until the thread is free; its handler then runs its statements    *)
(* in program order, and the thread is free again when the handler         *)
(* returns or yields.                                                      *)

Slots == 1 .. MaxInflight

Free == [pc |-> "free"]

\* a handler that awaits the result of its lookup
Yields_AfterLookup(pc) == pc = "lookup"

\* the statements after which a handler gives up the thread before it
\* returns: none, as no handler awaits and every statement of the storage
\* driver is a synchronous call
Yields(pc) == FALSE

\* a handler that answers before it notifies the subscribers
NextPc_RespondsFirst(op, pc) ==
    CASE pc = "lookup" -> IF op = "delete" THEN "write" ELSE "validate"
      [] pc = "validate" -> "write"
      [] pc = "write" -> IF op = "delete" THEN "respond" ELSE "reread"
      [] pc = "reread" -> "respond"
      [] pc = "respond" -> "broadcast"
      [] pc = "broadcast" -> "done"

\* program order: the statement that follows pc in the handler of op
NextPc(op, pc) ==
    CASE pc = "lookup" -> IF op = "delete" THEN "write" ELSE "validate"
      [] pc = "validate" -> "write"
      [] pc = "write" -> IF op = "delete" THEN "broadcast" ELSE "reread"
      [] pc = "reread" -> "broadcast"
      [] pc = "broadcast" -> "respond"
      [] pc = "respond" -> "done"

\* the first statement of the handler of op
FirstPc(op) == IF op = "create" THEN "validate" ELSE "lookup"

\* the requests of the statement-by-statement specification
StepRequests ==
    {[op |-> "create", id |-> 0,
      body |-> Body(Str("A"), Str("oracle"), Undefined, Undefined)],
     [op |-> "update", id |-> 1,
      body |-> Body(Str("B"), Undefined, Undefined, Num(1))],
     [op |-> "update", id |-> 1,
      body |-> Body(Undefined, Str("nobody"), Undefined, Undefined)],
     [op |-> "move", id |-> 1,
      body |-> Body(Undefined, Undefined, Str("done"), Undefined)],
     [op |-> "move", id |-> 1,
      body |-> Body(Undefined, Undefined, Undefined, Num(1))],
     [op |-> "delete", id |-> 1,
      body |-> Body(Undefined, Undefined, Undefined, Undefined)]}

\* what the steps leave alone: the clock, the event streams and the
\* description of a request answered in one step
Aside == <<now, req, res, sent, stmts, prior, sseClients, chans, closed,
           written, inbox, due, fault>>

\* the creates received and not yet past their INSERT
Inserting ==
    {s \in Slots : flight[s].pc \in {"validate", "write"}
                       /\ flight[s].op = "create"}

\* a request is received
Arrive(slot, request) ==
    /\ flight[slot] = Free
    /\ request.op = "create" => seq + Cardinality(Inserting) < MaxTasks
    /\ flight' = [flight EXCEPT ![slot] =
                      [op |-> request.op, id |-> request.id,
                       body |-> request.body, pc |-> FirstPc(request.op),
                       log |-> <<>>, seen |-> <<>>, after |-> <<>>,
                       task |-> Null, frame |-> Null, res |-> NoResponse]]
    /\ UNCHANGED <<tasks, seq, issued, deleted, running, Aside>>

\* the handler of slot may run its statement at pc
At(slot, pc) ==
    /\ flight[slot].pc = pc
    /\ running \in {0, slot}

\* the handler of slot has run a statement and become f
Ran(slot, f) ==
    /\ flight' = [flight EXCEPT ![slot] = f]
    /\ running' = IF f.pc = "done" \/ Yields(flight[slot].pc) THEN 0 ELSE slot
    /\ UNCHANGED Aside

\* the handler writes its response and returns
Return(f, response) ==
    [f EXCEPT !.pc = "done", !.res = response, !.log = Append(@, "respond")]

\* the handler goes on to its next statement, having logged what it did
Go(f, did) ==
    [f EXCEPT !.pc = NextPc(f.op, f.pc), !.log = Append(@, did)]

\* const existing = ...get(id); if (!existing) return res.status(404)...
Lookup(slot) ==
    LET f == [flight[slot] EXCEPT !.seen = tasks]
    IN  /\ At(slot, "lookup")
        /\ IF SelectById(tasks, f.id) = Null
           THEN Ran(slot, Return([f EXCEPT !.log = Append(@, "SELECT")],
                                 NotFound))
           ELSE Ran(slot, Go(f, "SELECT"))
        /\ UNCHANGED <<tasks, seq, issued, deleted>>

\* the checks of the body
Validate(slot) ==
    LET f == IF flight[slot].op = "create"
             THEN [flight[slot] EXCEPT !.seen = tasks] ELSE flight[slot]
        err == CASE f.op = "create" -> CreateError(f.body)
                 [] f.op = "update" -> UpdateError(f.body)
                 [] f.op = "move" -> MoveError(f.body)
    IN  /\ At(slot, "validate")
        /\ IF err # ""
           THEN Ran(slot, Return(f, Json(400, Error(err))))
           ELSE Ran(slot, [f EXCEPT !.pc = NextPc(f.op, f.pc)])
        /\ UNCHANGED <<tasks, seq, issued, deleted>>

\* the table and the response of a write that throws, if it throws
WriteOf(f) ==
    LET held == f.id \in DOMAIN tasks
        cp == CreateParams(f.body)
        up == UpdateParams(f.body)
        mp == MoveParams(f.body)
        id == NextRowid(tasks, seq)
    IN  CASE f.op = "create" ->
                IF ~Bindable(cp.title) \/ ~ConstraintsHold(cp.title, cp.owner, cp.status)
                THEN [ok |-> FALSE, tasks |-> tasks, id |-> id,
                      res |-> Json(400, Error("Failed to create task"))]
                ELSE [ok |-> TRUE, id |-> id,
                      tasks |-> WithRow(tasks, id,
                                   InsertedRow(id, cp.title, cp.description,
                                               cp.owner, cp.priority,
                                               cp.status, now))]
          [] f.op = "update" ->
                \* UPDATE ... WHERE id = ?: no row, no change and no error
                IF ~held THEN [ok |-> TRUE, id |-> f.id, tasks |-> tasks]
                ELSE LET row == CoalescedRow(tasks[f.id], up.title,
                                             up.description, up.owner,
                                             up.priority, up.status,
                                             up.position, now)
                     IN  IF ~RowAllowed(row)
                         THEN [ok |-> FALSE, tasks |-> tasks, id |-> f.id,
                               res |-> Uncaught]
                         ELSE [ok |-> TRUE, id |-> f.id,
                               tasks |-> WithRow(tasks, f.id, row)]
          [] f.op = "move" ->
                IF ~held THEN [ok |-> TRUE, id |-> f.id, tasks |-> tasks]
                ELSE LET row == MovedRow(tasks[f.id], mp.status, mp.position,
                                         now)
                     IN  IF ~RowAllowed(row)
                         THEN [ok |-> FALSE, tasks |-> tasks, id |-> f.id,
                               res |-> Uncaught]
                         ELSE [ok |-> TRUE, id |-> f.id,
                               tasks |-> WithRow(tasks, f.id, row)]
          [] f.op = "delete" ->
                [ok |-> TRUE, id |-> f.id, tasks |-> WithoutRow(tasks, f.id)]

\* stmt.run(...): the INSERT, UPDATE or DELETE of the handler
Write(slot) ==
    LET f == flight[slot]
        w == WriteOf(f)
        statement == CASE f.op = "create" -> "INSERT"
                       [] f.op = "delete" -> "DELETE"
                       [] OTHER -> "UPDATE"
    IN  /\ At(slot, "write")
        /\ tasks' = w.tasks
        /\ IF w.ok
           THEN Ran(slot, Go([f EXCEPT !.id = w.id, !.after = w.tasks],
                             statement))
           ELSE Ran(slot, Return([f EXCEPT !.log = Append(@, statement)],
                                 w.res))
        /\ seq' = IF f.op = "create" /\ w.ok THEN w.id ELSE seq
        /\ issued' = IF f.op = "create" /\ w.ok THEN Append(issued, w.id)
                     ELSE issued
        /\ deleted' = IF f.op = "delete" THEN deleted \cup {f.id} ELSE deleted

\* const task = ...get(id): the row, or undefined when the table has none
Reread(slot) ==
    LET f == flight[slot]
    IN  /\ At(slot, "reread")
        /\ Ran(slot, Go([f EXCEPT !.task = SelectById(tasks, f.id)], "SELECT"))
        /\ UNCHANGED <<tasks, seq, issued, deleted>>

\* broadcast(event, data)
Broadcast(slot) ==
    LET f == flight[slot]
        data == IF f.op = "delete" THEN [id |-> f.id] ELSE f.task
    IN  /\ At(slot, "broadcast")
        /\ Ran(slot, Go([f EXCEPT !.frame = EventFrame(EventOf(f.op), data)],
                        "broadcast"))
        /\ UNCHANGED <<tasks, seq, issued, deleted>>

\* res.status(201).json(task), res.json(task), res.status(204).send()
Respond(slot) ==
    LET f == flight[slot]
        response == CASE f.op = "create" -> Json(201, f.task)
                      [] f.op = "delete" -> Json(204, Empty)
                      [] OTHER -> Json(200, f.task)
    IN  /\ At(slot, "respond")
        /\ Ran(slot, Go([f EXCEPT !.res = response], "respond"))
        /\ UNCHANGED <<tasks, seq, issued, deleted>>

\* the response has reached the caller
Release(slot) ==
    /\ flight[slot] # Free
    /\ flight[slot].pc = "done"
    /\ flight' = [flight EXCEPT ![slot] = Free]
    /\ UNCHANGED <<tasks, seq, issued, deleted, running, Aside>>

NextSteps ==
    \/ \E slot \in Slots, request \in StepRequests : Arrive(slot, request)
    \/ \E slot \in Slots : Lookup(slot)
    \/ \E slot \in Slots : Validate(slot)
    \/ \E slot \in Slots : Write(slot)
    \/ \E slot \in Slots : Reread(slot)
    \/ \E slot \in Slots : Broadcast(slot)
    \/ \E slot \in Slots : Respond(slot)
    \/ \E slot \in Slots : Release(slot)

SpecSteps == Init /\ [][NextSteps]_vars

\* the requests received and not yet released
InFlight == {s \in Slots : flight[s] # Free}

\* the handler of slot has answered with a success
Answered(slot) ==
    /\ slot \in InFlight
    /\ flight[slot].pc = "done"
    /\ flight[slot].res.status \in {200, 201, 204}

\* the steps of a handler that succeeds, in the order of the claim
StepsOf(op) ==
    CASE op = "create" -> <<"INSERT", "SELECT", "broadcast", "respond">>
      [] op = "delete" -> <<"SELECT", "DELETE", "broadcast", "respond">>
      [] OTHER -> <<"SELECT", "UPDATE", "SELECT", "broadcast", "respond">>

(* C22: a handler that answers with a success has run, in this order, its *)
(* lookup (except Create), one storage write, the re-read of the row       *)
(* (Create, Update, Move), one broadcast call, and the response, and       *)
(* nothing else; at no moment has a handler written its response without   *)
(* having called broadcast before, unless the response is an error; and    *)
(* no handler runs more than one writing statement.                        *)
C22_StepOrder ==
    \A s \in InFlight :
        LET f == flight[s]
            writes == {k \in DOMAIN f.log :
                          f.log[k] \in {"INSERT", "UPDATE", "DELETE"}}
            at(x) == {k \in DOMAIN f.log : f.log[k] = x}
        IN  /\ Answered(s) => f.log = StepsOf(f.op)
            /\ Cardinality(writes) <= 1
            /\ (at("respond") # {} /\ f.res.status \in {0, 200, 201, 204}) =>
                   \E b \in at("broadcast") : \A r \in at("respond") : b < r

\* a Move has answered 200 while another request is waiting
C22_Witness ==
    /\ Answered(1)
    /\ flight[1].op = "move"
    /\ flight[1].frame = EventFrame("task-updated", tasks[1])
    /\ flight[2] # Free
    /\ flight[2].pc = "lookup"

----------------------------------------------------------------------------
(* C25: whatever the order in which requests are received and handled,    *)
(* between the first and the last statement of a handler the table is      *)
(* changed by its own write only; and an Update or Move that answers 200   *)
(* returns the stored row of the requested id, holding every value the     *)
(* request supplied.                                                       *)
C25_HandlersAtomic ==
    \A s \in InFlight :
        LET f == flight[s]
        IN  /\ (f.op # "create" /\ f.pc \in {"validate", "write"}) =>
                   tasks = f.seen
            /\ f.pc \in {"reread", "broadcast", "respond"} =>
                   tasks = f.after
            /\ (Answered(s) /\ f.op \in {"update", "move"}) =>
                   /\ f.res.body # Null
                   /\ f.res.body.id = f.id
                   /\ f.res.body = f.after[f.id]
                   /\ f.op = "update" =>
                          \A k \in Keys : Given(f.body[k]) =>
                              f.res.body[k] = f.body[k].val
                   /\ f.op = "move" =>
                          /\ f.res.body.status = f.body.status.val
                          /\ f.res.body.position =
                                 OrElse(f.body.position, Num(0)).val

\* an Update of the task has answered 200 although a Delete of the task
\* was received before the Update began and is still waiting
C25_Witness ==
    /\ Answered(1)
    /\ flight[1].op = "update"
    /\ flight[1].res.body.title = "B"
    /\ flight[2] # Free
    /\ flight[2].op = "delete"
    /\ flight[2].pc = "lookup"
    /\ tasks[1].title = "B"

----------------------------------------------------------------------------
(* C27: an Update or Move of an id the table does not hold is answered    *)
(* 404 Task not found whatever its body, an invalid body included; a 400   *)
(* is the answer of an Update or Move only when the table holds the id.    *)
C27_ExistenceFirst ==
    req.op \in {"update", "move"} =>
        /\ ~TargetExisted => res = NotFound
        /\ res.status = 400 => TargetExisted

\* a Move without a valid status, of an id the table does not hold
C27_Witness ==
    /\ req.op = "move"
    /\ ~TargetExisted
    /\ MoveError(req.body) # ""
    /\ req.body.status = Str("bogus")
    /\ res = NotFound

----------------------------------------------------------------------------
(* C29: two Updates of an existing task that supply disjoint sets of      *)
(* fields leave the same row in either order, and when both succeed every  *)
(* field that one of them supplied with a value has that value: the        *)
(* Update just handled, followed by any Update of other fields, leaves     *)
(* what the two leave in the opposite order from the table found.          *)
C29_DisjointUpdatesCommute ==
    (req.op = "update" /\ TargetExisted) =>
        /\ tasks = AfterUpdate(prior, req.id, req.body, now)
        /\ \A other \in UpdateBodies :
               Supplied(other) \cap Supplied(req.body) = {} =>
                   LET thisFirst == AfterUpdate(tasks, req.id, other, now)
                       otherFirst ==
                           AfterUpdate(AfterUpdate(prior, req.id, other, now),
                                       req.id, req.body, now)
                   IN  /\ thisFirst = otherFirst
                       /\ (res.status = 200 /\ thisFirst # tasks) =>
                              /\ \A k \in Supplied(req.body) :
                                     Given(req.body[k]) =>
                                         thisFirst[req.id][k] = req.body[k].val
                              /\ \A k \in Supplied(other) :
                                     Given(other[k]) =>
                                         thisFirst[req.id][k] = other[k].val

\* an Update that supplies a title and a position only, of a task that
\* has a priority and a status of its own for other Updates to rewrite
C29_Witness ==
    /\ req.op = "update"
    /\ res.status = 200
    /\ Supplied(req.body) = {"title", "position"}
    /\ tasks[req.id].position = 1
    /\ tasks[req.id].priority = 2
    /\ tasks[req.id].status = "done"

----------------------------------------------------------------------------
\* what the server entry point does with the request just handled, on the
\* table and the sequence the request found
ServerOutcome ==
    LET found == IF req.op = "create" /\ res.status = 201 THEN seq - 1 ELSE seq
    IN  CASE req.op = "create" -> ServerCreate(prior, found, req.body, now)
          [] req.op = "update" -> ServerUpdate(prior, req.id, req.body, now)
          [] req.op = "move" -> ServerMove(prior, req.id, req.body, now)

(* C28: every Create, Update and Move that the tested app answers with a  *)
(* validation error (400) is answered 400 by the server entry point too,   *)
(* and a request is accepted by one exactly when it is accepted by the     *)
(* other, with the same row returned and the same table left.              *)
C28_SameValidation ==
    req.op \in {"create", "update", "move"} =>
        /\ res.status = 400 => ServerOutcome.res.status = 400
        /\ Succeeded <=> ServerOutcome.res.status \in {200, 201}
        /\ Succeeded => /\ ServerOutcome.res = res
                        /\ ServerOutcome.tasks = tasks

====
